---- MODULE Spec2Model ----
(***************************************************************************)
(* gensim.models.phrases: collocation counting under a vocabulary cap      *)
(* (Phrases.learn_vocab, Phrases.add_vocab, prune_vocab) and the greedy    *)
(* bigram transform (Phrases.__getitem__).                                 *)
(*                                                                         *)
(* Tokens are sequences of code points; the vocabulary is keyed by their   *)
(* utf8 byte sequences.  A dictionary is a function whose DOMAIN is its    *)
(* key set.  add_vocab is modelled at the granularity of its sentence      *)
(* iterator: one step per sentence consumed (lines 131-149), one step for  *)
(* the exhaustion of the iterator (lines 153, 166-174), one for a failure  *)
(* raised by the iterator.                                                 *)
(***************************************************************************)
EXTENDS Integers, Sequences, FiniteSets, TLC

\* ---------------------------------------------------------------- bounds
MaxLen == 3
MaxSentences == 2
MaxCalls == 2

\* Raw tokens (code point sequences): "a" and "e-acute".  No raw token holds
\* the separator "_" (the constraint documented for compound keys).
Tokens ==
  {<<97>>, <<233>>}

\* Sequences over S of length 0..n.
SeqUpTo(S, n) ==
  UNION {[1..k -> S] : k \in 0..n}

Sentences ==
  SeqUpTo(Tokens, MaxLen)

\* Constructor arguments tried; threshold is the rational <<num, den>>.
MinCounts ==
  {0, 1}
Thresholds ==
  {<<0, 1>>, <<1, 4>>, <<3, 4>>}
MaxVocabSizes ==
  {1, 3}

\* ------------------------------------------------------- token encoding
RECURSIVE any2utf8(_)
any2utf8(w) ==
  IF w = <<>> THEN <<>>
  ELSE (IF Head(w) < 128 THEN <<Head(w)>>
        ELSE <<192 + (Head(w) \div 64), 128 + (Head(w) % 64)>>)
       \o any2utf8(Tail(w))

RECURSIVE to_unicode(_)
to_unicode(b) ==
  IF b = <<>> THEN <<>>
  ELSE IF Head(b) < 128 THEN <<Head(b)>> \o to_unicode(Tail(b))
  ELSE <<(Head(b) - 192) * 64 + (b[2] - 128)>> \o to_unicode(Tail(Tail(b)))

\* [utils.any2utf8(s) for s in sentence]
EncodeAll(s) ==
  [i \in 1..Len(s) |-> any2utf8(s[i])]

\* [utils.to_unicode(w) for w in new_s]
DecodeAll(s) ==
  [i \in 1..Len(s) |-> to_unicode(s[i])]

Underscore ==
  <<95>>

\* "%s_%s" % bigram
bigram_word(a, b) ==
  a \o Underscore \o b

\* ----------------------------------------------------------- dictionary
\* defaultdict(int)
EmptyVocab ==
  [k \in {} |-> 0]

Incr_after_first(v, k, n) ==
  IF k \in DOMAIN v THEN [v EXCEPT ![k] = @ + n]
  ELSE [x \in (DOMAIN v) \cup {k} |-> IF x = k THEN n - 1 ELSE v[x]]

\* vocab[k] += n  (a missing key is created at 0 first)
Incr(v, k, n) ==
  [x \in (DOMAIN v) \cup {k} |->
     (IF x \in DOMAIN v THEN v[x] ELSE 0) + (IF x = k THEN n ELSE 0)]

\* del vocab[k]
Del(v, k) ==
  [x \in (DOMAIN v) \ {k} |-> v[x]]

\* the table after evaluating vocab[k] on a defaultdict(int): a read of a
\* missing key inserts it with count 0
Touch(v, k) ==
  IF k \in DOMAIN v THEN v ELSE [x \in (DOMAIN v) \cup {k} |-> IF x = k THEN 0 ELSE v[x]]

Max(a, b) ==
  IF a >= b THEN a ELSE b

\* ---------------------------------------------------------- prune_vocab
Discard_lt(count, min_reduce) ==
  count < min_reduce

\* vocab[w] <= min_reduce
Discard(count, min_reduce) ==
  count <= min_reduce

RECURSIVE PruneKeys(_, _, _)
PruneKeys(v, keys, mr) ==
  IF keys = {} THEN v
  ELSE LET w == CHOOSE k \in keys : TRUE
       IN PruneKeys(IF Discard(v[w], mr) THEN Del(v, w) ELSE v, keys \ {w}, mr)

\* for w in list(vocab): if vocab[w] <= min_reduce: del vocab[w]
prune_vocab(v, mr) ==
  PruneKeys(v, DOMAIN v, mr)

\* ---------------------------------------------------------- learn_vocab
\* for bigram in zip(sentence, sentence[1:]): vocab[word] += 1; vocab[bigram_word] += 1
RECURSIVE CountBigrams_both(_, _)
CountBigrams_both(v, s) ==
  IF Len(s) < 2 THEN v
  ELSE CountBigrams_both(
         Incr(Incr(Incr(v, s[1], 1), s[2], 1), bigram_word(s[1], s[2]), 1), Tail(s))

RECURSIVE CountBigrams(_, _)
CountBigrams(v, s) ==
  IF Len(s) < 2 THEN v
  ELSE CountBigrams(Incr(Incr(v, s[1], 1), bigram_word(s[1], s[2]), 1), Tail(s))

CountSentence_nolast(v, s) ==
  CountBigrams(v, s)

\* the counting of one sentence, with the last word skipped by the loop
CountSentence(v, s) ==
  LET w == CountBigrams(v, s)
  IN IF s # <<>> THEN Incr(w, s[Len(s)], 1) ELSE w

OverCap_ge(v, cap) ==
  Cardinality(DOMAIN v) >= cap

\* len(vocab) > max_vocab_size
OverCap(v, cap) ==
  Cardinality(DOMAIN v) > cap

\* ------------------------------------------------------ float arithmetic
\* The score is computed in IEEE-754 binary64 (Python float), round to
\* nearest, ties to even.  A positive float is [m, e] with value m * 2^e and
\* m a 53-bit integer; integers of that size are sequences of limbs, least
\* significant first, without leading zero limbs.  The values met here are
\* far from the subnormal and overflow ranges.
LimbBase ==
  2^15

RECURSIVE Big(_)
Big(x) ==
  IF x = 0 THEN <<>> ELSE <<x % LimbBase>> \o Big(x \div LimbBase)

RECURSIVE Strip(_)
Strip(N) ==
  IF N = <<>> THEN <<>>
  ELSE IF N[Len(N)] = 0 THEN Strip(SubSeq(N, 1, Len(N) - 1)) ELSE N

\* N * k + carry, for a small k
RECURSIVE MulSmall(_, _, _)
MulSmall(N, k, carry) ==
  IF N = <<>> THEN Big(carry)
  ELSE LET v == N[1] * k + carry
       IN <<v % LimbBase>> \o MulSmall(Tail(N), k, v \div LimbBase)

\* quotient (as many limbs as N) and remainder of N by a small q
RECURSIVE DivSmall(_, _)
DivSmall(N, q) ==
  IF N = <<>> THEN [quot |-> <<>>, rem |-> 0]
  ELSE LET hi == DivSmall(Tail(N), q)
           v  == hi.rem * LimbBase + N[1]
       IN [quot |-> <<v \div q>> \o hi.quot, rem |-> v % q]

RECURSIVE Inc(_)
Inc(N) ==
  IF N = <<>> THEN <<1>>
  ELSE IF N[1] + 1 < LimbBase THEN <<N[1] + 1>> \o Tail(N)
  ELSE <<0>> \o Inc(Tail(N))

RECURSIVE BitLenInt(_)
BitLenInt(x) ==
  IF x = 0 THEN 0 ELSE 1 + BitLenInt(x \div 2)

BitLen(N) ==
  IF N = <<>> THEN 0 ELSE 15 * (Len(N) - 1) + BitLenInt(N[Len(N)])

\* N shifted right by t bits, and whether a nonzero bit was shifted out
ShiftRight(N, t) ==
  LET a == t \div 15
      d == DivSmall(SubSeq(N, a + 1, Len(N)), 2^(t % 15))
  IN [quot |-> Strip(d.quot),
      sticky |-> d.rem # 0 \/ \E i \in 1..a : N[i] # 0]

\* the float nearest to N * 2^E / q, for N > 0 and a small q > 0
RoundDiv(N, E, q) ==
  LET d  == DivSmall(<<0, 0, 0, 0, 0>> \o N, q)
      Q  == Strip(d.quot)
      t  == BitLen(Q) - 54
      s  == ShiftRight(Q, t)
      h  == DivSmall(s.quot, 2)
      m0 == Strip(h.quot)
      up == h.rem = 1 /\ (s.sticky \/ d.rem # 0 \/ m0[1] % 2 = 1)
      m1 == IF up THEN Inc(m0) ELSE m0
  IN IF BitLen(m1) = 54
     THEN [m |-> Strip(DivSmall(m1, 2).quot), e |-> E - 75 + t + 2]
     ELSE [m |-> m1, e |-> E - 75 + t + 1]

RECURSIVE BigGreater(_, _)
BigGreater(M, N) ==
  IF Len(M) # Len(N) THEN Len(M) > Len(N)
  ELSE IF M = <<>> THEN FALSE
  ELSE IF M[Len(M)] # N[Len(N)] THEN M[Len(M)] > N[Len(N)]
  ELSE BigGreater(SubSeq(M, 1, Len(M) - 1), SubSeq(N, 1, Len(N) - 1))

\* f > g for two positive floats
FloatGreater(f, g) ==
  IF f.e # g.e THEN f.e > g.e ELSE BigGreater(f.m, g.m)

ScoreAbove_no_min_count(pab, pa, pb, n, mc, th) ==
  LET d1 == RoundDiv(Big(pab), 0, pa)
      d2 == RoundDiv(d1.m, d1.e, pb)
      d3 == RoundDiv(MulSmall(d2.m, n, 0), d2.e, 1)
  IN FloatGreater(d3, RoundDiv(Big(th[1]), 0, th[2]))

\* ---------------------------------------------------------- __getitem__
\* score = (pab - self.min_count) / pa / pb * len(self.vocab); score > self.threshold
\* for pa, pb > 0 and the threshold th = <<num, den>>, num > 0: a score that is
\* zero or negative is not above it; a positive one is rounded after each
\* division and after the multiplication
ScoreAbove(pab, pa, pb, n, mc, th) ==
  IF pab - mc <= 0 THEN FALSE
  ELSE LET d1 == RoundDiv(Big(pab - mc), 0, pa)
           d2 == RoundDiv(d1.m, d1.e, pb)
           d3 == RoundDiv(MulSmall(d2.m, n, 0), d2.e, 1)
       IN FloatGreater(d3, RoundDiv(Big(th[1]), 0, th[2]))

\* the loop state before the first bigram: s, new_s = [...], []; last_bigram = False
GetItemStart(v) ==
  [new_s |-> <<>>, last_bigram |-> FALSE, vocab |-> v, merges |-> {}, raised |-> FALSE]

\* The dict after a membership test "k in self.vocab": the test reads the
\* key set and inserts nothing (an index self.vocab[k] would, see Touch).
AfterIn_index(v, k) ==
  Touch(v, k)

AfterIn(v, k) ==
  v

\* "bigram_word in self.vocab and not last_bigram"
MayScore_overlap(present, last_bigram) ==
  present

MayScore(present, last_bigram) ==
  present /\ ~last_bigram

\* One iteration of "for bigram in zip(s, s[1:])" at position i of s:
\* st.merges collects the positions whose pair was emitted as a compound,
\* st.raised records a ZeroDivisionError of the score.
GetItemStep(st, a, b, i, mc, th) ==
  LET v   == st.vocab
      bw  == bigram_word(a, b)
      uni == a \in DOMAIN v /\ b \in DOMAIN v
      va  == AfterIn(v, a)
      vb  == IF a \in DOMAIN v THEN AfterIn(va, b) ELSE va
      vw  == IF uni THEN AfterIn(vb, bw) ELSE vb
      alone == [st EXCEPT !.vocab = vw,
                          !.new_s = IF st.last_bigram THEN @ ELSE Append(@, a),
                          !.last_bigram = FALSE]
  IN IF st.raised THEN st
     ELSE IF uni /\ MayScore(bw \in DOMAIN v, st.last_bigram)
     THEN LET v1 == Touch(Touch(Touch(vw, a), b), bw)
          IN IF v1[a] = 0 \/ v1[b] = 0
             THEN [st EXCEPT !.vocab = v1, !.raised = TRUE]
             ELSE IF ScoreAbove(v1[bw], v1[a], v1[b], Cardinality(DOMAIN v1), mc, th)
             THEN [st EXCEPT !.vocab = v1, !.new_s = Append(@, bw),
                             !.last_bigram = TRUE, !.merges = @ \cup {i}]
             ELSE alone
     ELSE alone

RECURSIVE GetItemLoop(_, _, _, _, _)
GetItemLoop(st, s, i, mc, th) ==
  IF i >= Len(s) THEN st
  ELSE GetItemLoop(GetItemStep(st, s[i], s[i + 1], i, mc, th), s, i + 1, mc, th)

GetItemLast_after_merge(st, s) ==
  IF st.raised \/ s = <<>> THEN st
  ELSE IF s[Len(s)] \in DOMAIN st.vocab
  THEN [st EXCEPT !.new_s = Append(@, s[Len(s)])]
  ELSE st

\* if s: last_token = s[-1]; if last_token in self.vocab and not last_bigram: append
GetItemLast(st, s) ==
  IF st.raised \/ s = <<>> THEN st
  ELSE IF s[Len(s)] \in DOMAIN st.vocab /\ ~st.last_bigram
  THEN [st EXCEPT !.vocab = AfterIn(@, s[Len(s)]), !.new_s = Append(@, s[Len(s)])]
  ELSE [st EXCEPT !.vocab = AfterIn(@, s[Len(s)])]

\* Phrases.__getitem__ on a single document: the final loop state, with
\* new_s still utf8-encoded
GetItem(v, d, mc, th) ==
  LET s == EncodeAll(d)
  IN GetItemLast(GetItemLoop(GetItemStart(v), s, 1, mc, th), s)

\* ------------------------------------------------- occurrences (history)
\* The keys a sentence (of utf8 tokens) gives rise to, and how often each
\* occurs in it: a token at each of its positions, a compound at each
\* position where its two tokens are adjacent.
KeysOf(s) ==
  {s[i] : i \in 1..Len(s)} \cup {bigram_word(s[i], s[i + 1]) : i \in 1..(Len(s) - 1)}

Occurrences(k, s) ==
  Cardinality({i \in 1..Len(s) : s[i] = k})
  + Cardinality({i \in 1..(Len(s) - 1) : bigram_word(s[i], s[i + 1]) = k})

Observe(h, s) ==
  [k \in (DOMAIN h) \cup KeysOf(s) |->
     (IF k \in DOMAIN h THEN h[k] ELSE 0) + Occurrences(k, s)]

\* ------------------------------------------------------------------ state
VARIABLES
  status,          \* "ok": constructed; "ValueError": __init__ raised
  min_count,       \* self.min_count
  threshold,       \* self.threshold, <<num, den>>
  max_vocab_size,  \* self.max_vocab_size
  vocab,           \* self.vocab
  min_reduce,      \* self.min_reduce
  pc,              \* "idle", or "learn_vocab" while add_vocab iterates sentences
  lv_vocab,        \* learn_vocab's local vocab
  lv_min_reduce,   \* learn_vocab's local min_reduce
  sentence_no,     \* sentences consumed by the running learn_vocab
  calls,           \* add_vocab calls started
  consumed,        \* sentences consumed by all learn_vocab runs together
  last,            \* record of the last step: its inputs and what it computed
  seen,            \* history: occurrences of every key in all sentences consumed
  lv_seen,         \* history: occurrences in the sentences of the running call
  lv_pruned,       \* history: keys prune_vocab removed from lv_vocab in this call
  passes           \* history: prune passes of the running learn_vocab

vars ==
  <<status, min_count, threshold, max_vocab_size, vocab, min_reduce, pc, lv_vocab,
    lv_min_reduce, sentence_no, calls, consumed, last, seen, lv_seen, lv_pruned, passes>>

model ==
  <<status, min_count, threshold, max_vocab_size, vocab, min_reduce>>

local ==
  <<lv_vocab, lv_min_reduce, sentence_no, lv_seen, lv_pruned, passes>>

InvalidArgs_negative(mc, th) ==
  mc < 0 \/ th[1] < 0

\* the two checks of __init__ that raise ValueError: "min_count <= 0",
\* "threshold <= 0" (th is the fraction th[1] / th[2], th[2] > 0)
InvalidArgs(mc, th) ==
  mc <= 0 \/ th[1] <= 0

\* Phrases.__init__(sentences=None, min_count=mc, threshold=th, max_vocab_size=mvs)
Construct(mc, th, mvs) ==
  /\ last = [op |-> "init", min_count |-> mc, threshold |-> th, max_vocab_size |-> mvs]
  /\ IF InvalidArgs(mc, th)
     THEN /\ status = "ValueError"
          /\ min_count = 0 /\ threshold = <<0, 1>> /\ max_vocab_size = 0
     ELSE /\ status = "ok"
          /\ min_count = mc /\ threshold = th /\ max_vocab_size = mvs
  /\ vocab = EmptyVocab
  /\ min_reduce = 1
  /\ pc = "idle"
  /\ lv_vocab = EmptyVocab /\ lv_min_reduce = 1 /\ sentence_no = 0
  /\ calls = 0 /\ consumed = 0
  /\ seen = EmptyVocab /\ lv_seen = EmptyVocab /\ lv_pruned = {} /\ passes = 0

Init ==
  \E mc \in MinCounts, th \in Thresholds, mvs \in MaxVocabSizes : Construct(mc, th, mvs)

\* add_vocab is entered and learn_vocab starts: vocab = defaultdict(int); min_reduce = 1
BeginAddVocab ==
  /\ status = "ok" /\ pc = "idle" /\ calls < MaxCalls
  /\ pc' = "learn_vocab"
  /\ calls' = calls + 1
  /\ lv_vocab' = EmptyVocab /\ lv_min_reduce' = 1 /\ sentence_no' = 0
  /\ lv_seen' = EmptyVocab /\ lv_pruned' = {} /\ passes' = 0
  /\ last' = [op |-> "begin"]
  /\ UNCHANGED <<model, seen, consumed>>

MinReduceAfterPass_twice(mr) ==
  mr + 2

\* learn_vocab's "min_reduce += 1" after a pruning pass
MinReduceAfterPass(mr) ==
  mr + 1

\* one iteration of learn_vocab's loop over the sentences, its pruning
\* checkpoint included
LearnSentence(sentence) ==
  /\ pc = "learn_vocab" /\ consumed < MaxSentences
  /\ LET s       == EncodeAll(sentence)
         counted == CountSentence(lv_vocab, s)
         over    == OverCap(counted, max_vocab_size)
         after   == IF over THEN prune_vocab(counted, lv_min_reduce) ELSE counted
     IN /\ lv_vocab' = after
        /\ lv_min_reduce' = IF over THEN MinReduceAfterPass(lv_min_reduce) ELSE lv_min_reduce
        /\ passes' = IF over THEN passes + 1 ELSE passes
        /\ lv_pruned' = lv_pruned \cup ((DOMAIN counted) \ (DOMAIN after))
        /\ lv_seen' = Observe(lv_seen, s)
        /\ seen' = Observe(seen, s)
        /\ last' = [op |-> "learn", sentence |-> s, before |-> lv_vocab,
                    counted |-> counted, pruned |-> over, T |-> lv_min_reduce]
  /\ sentence_no' = sentence_no + 1
  /\ consumed' = consumed + 1
  /\ UNCHANGED <<model, pc, calls>>

\* learn_vocab's frame is left (by return or by an exception): its locals are gone
Return ==
  /\ lv_vocab' = EmptyVocab /\ lv_min_reduce' = 1 /\ sentence_no' = 0
  /\ lv_seen' = EmptyVocab /\ lv_pruned' = {} /\ passes' = 0

IterFails_partial ==
  /\ pc = "learn_vocab"
  /\ pc' = "idle"
  /\ last' = [op |-> "failed", sentence_no |-> sentence_no]
  /\ Return
  /\ vocab' = [k \in (DOMAIN vocab) \cup (DOMAIN lv_vocab) |->
                 (IF k \in DOMAIN vocab THEN vocab[k] ELSE 0)
                   + (IF k \in DOMAIN lv_vocab THEN lv_vocab[k] ELSE 0)]
  /\ min_reduce' = Max(min_reduce, lv_min_reduce)
  /\ UNCHANGED <<status, min_count, threshold, max_vocab_size, calls, consumed, seen>>

\* the sentence iterator raises after sentence_no sentences: the exception
\* leaves learn_vocab and add_vocab
IterFails ==
  /\ pc = "learn_vocab"
  /\ pc' = "idle"
  /\ last' = [op |-> "failed", sentence_no |-> sentence_no]
  /\ Return
  /\ UNCHANGED <<model, calls, consumed, seen>>

NewMinReduce_local(prev, lv) ==
  lv

\* self.min_reduce = max(self.min_reduce, min_reduce)
NewMinReduce(prev, lv) ==
  Max(prev, lv)

Fold_overwrite(v, lv, keys) ==
  [k \in (DOMAIN v) \cup keys |-> IF k \in keys THEN lv[k] ELSE v[k]]

\* for word, count in iteritems(vocab): self.vocab[word] += count
RECURSIVE Fold(_, _, _)
Fold(v, lv, keys) ==
  IF keys = {} THEN v
  ELSE LET w == CHOOSE k \in keys : TRUE
       IN Fold(Incr(v, w, lv[w]), lv, keys \ {w})

\* the sentence iterator is exhausted: learn_vocab returns and add_vocab
\* merges its counts into the model
FinishAddVocab ==
  /\ pc = "learn_vocab"
  /\ LET mr     == NewMinReduce(min_reduce, lv_min_reduce)
         folded == Fold(vocab, lv_vocab, DOMAIN lv_vocab)
         over   == OverCap(folded, max_vocab_size)
     IN /\ vocab' = IF over THEN prune_vocab(folded, mr) ELSE folded
        /\ min_reduce' = IF over THEN mr + 1 ELSE mr
        /\ last' = [op |-> "add_vocab", prev_vocab |-> vocab, prev_min_reduce |-> min_reduce,
                    lv_vocab |-> lv_vocab, lv_min_reduce |-> lv_min_reduce, passes |-> passes,
                    folded |-> folded, pruned |-> over, T |-> mr]
  /\ pc' = "idle"
  /\ Return
  /\ UNCHANGED <<status, min_count, threshold, max_vocab_size, calls, consumed, seen>>

\* phrases[doc] on a single document
Transform(d) ==
  /\ status = "ok" /\ pc = "idle"
  /\ LET r == GetItem(vocab, d, min_count, threshold)
     IN /\ vocab' = r.vocab
        /\ last' = [op |-> "getitem", doc |-> d, raised |-> r.raised,
                    new_s |-> IF r.raised THEN <<>> ELSE DecodeAll(r.new_s),
                    merges |-> r.merges, prev_vocab |-> vocab]
  /\ UNCHANGED <<status, min_count, threshold, max_vocab_size, min_reduce, pc, local,
                 calls, consumed, seen>>

Next ==
  \/ BeginAddVocab
  \/ \E s \in Sentences : LearnSentence(s)
  \/ IterFails
  \/ FinishAddVocab
  \/ \E d \in Sentences : Transform(d)

Spec ==
  Init /\ [][Next]_vars

\* A second corpus, over the tokens "a", "b", "c": the sentence a b a b ... (six
\* times a b) and the sentence b b c c b b.  Together they give the counts
\* a: 6, b: 10, a_b: 6 in a table of 9 keys, where the score of (a, b) for
\* min_count = 1 is exactly 3/4.
TieCorpus ==
  {[i \in 1..12 |-> IF i % 2 = 1 THEN <<97>> ELSE <<98>>],
   <<<<98>>, <<98>>, <<99>>, <<99>>, <<98>>, <<98>>>>}

TieDocs ==
  SeqUpTo({<<97>>, <<98>>}, MaxLen)

\* Phrases(min_count=1, threshold=0.75, max_vocab_size=9)
InitTie ==
  Construct(1, <<3, 4>>, 9)

NextTie ==
  \/ BeginAddVocab
  \/ \E s \in TieCorpus : LearnSentence(s)
  \/ IterFails
  \/ FinishAddVocab
  \/ \E d \in TieDocs : Transform(d)

SpecTie ==
  InitTie /\ [][NextTie]_vars

\* ------------------------------------------------- add_vocab as a function
\* The model as add_vocab sees it: the cumulative table and min_reduce;
\* prunes counts the prune_vocab calls made so far (history).
NewModel ==
  [vocab |-> EmptyVocab, min_reduce |-> 1, prunes |-> 0]

\* learn_vocab's loop from sentence i of the sentences S on: st holds the
\* local vocab and min_reduce
RECURSIVE learn_vocab_loop(_, _, _, _)
learn_vocab_loop(st, S, i, mvs) ==
  IF i > Len(S) THEN st
  ELSE LET counted == CountSentence(st.vocab, EncodeAll(S[i]))
           over    == OverCap(counted, mvs)
       IN learn_vocab_loop(
            IF over
            THEN [vocab |-> prune_vocab(counted, st.min_reduce),
                  min_reduce |-> MinReduceAfterPass(st.min_reduce),
                  prunes |-> st.prunes + 1]
            ELSE [st EXCEPT !.vocab = counted],
            S, i + 1, mvs)

\* learn_vocab(sentences, max_vocab_size): returns min_reduce, vocab
learn_vocab(S, mvs) ==
  learn_vocab_loop(NewModel, S, 1, mvs)

add_vocab_replace(m, S, mvs) ==
  LET lv == learn_vocab(S, mvs)
  IN [vocab |-> lv.vocab, min_reduce |-> Max(m.min_reduce, lv.min_reduce),
      prunes |-> m.prunes + lv.prunes]

\* add_vocab(sentences) on the model m, the sentences being read to the end
add_vocab(m, S, mvs) ==
  LET lv     == learn_vocab(S, mvs)
      mr     == NewMinReduce(m.min_reduce, lv.min_reduce)
      folded == Fold(m.vocab, lv.vocab, DOMAIN lv.vocab)
      over   == OverCap(folded, mvs)
  IN [vocab      |-> IF over THEN prune_vocab(folded, mr) ELSE folded,
      min_reduce |-> IF over THEN mr + 1 ELSE mr,
      prunes     |-> m.prunes + lv.prunes + (IF over THEN 1 ELSE 0)]

\* the sentence collections given to one add_vocab call
Corpora ==
  SeqUpTo(Sentences, MaxSentences)

RECURSIVE ObserveAll(_, _, _)
ObserveAll(h, S, i) ==
  IF i > Len(S) THEN h ELSE ObserveAll(Observe(h, EncodeAll(S[i])), S, i + 1)

\* a whole add_vocab(S) call; last.corpora lists the sentences of the calls
\* made so far, one element per call
AddVocabCall(S) ==
  /\ status = "ok" /\ pc = "idle" /\ calls < MaxCalls
  /\ LET r == add_vocab([vocab |-> vocab, min_reduce |-> min_reduce, prunes |-> 0],
                        S, max_vocab_size)
     IN vocab' = r.vocab /\ min_reduce' = r.min_reduce
  /\ last' = [op |-> "add_vocab_call",
              corpora |-> IF last.op = "add_vocab_call" THEN Append(last.corpora, S) ELSE <<S>>]
  /\ calls' = calls + 1
  /\ consumed' = consumed + Len(S)
  /\ seen' = ObserveAll(seen, S, 1)
  /\ UNCHANGED <<status, min_count, threshold, max_vocab_size, pc, local>>

NextAdd ==
  \E S \in Corpora : AddVocabCall(S)

SpecAdd ==
  Init /\ [][NextAdd]_vars

\* ================================================================ claims
\* The compound of two raw tokens as the transform returns it (decoded).
Compound(a, b) ==
  a \o Underscore \o b

\* out accounts for every token of src exactly once and in order: each
\* element of out is the next token of src, or the compound of the next two.
RECURSIVE IsMergeOf(_, _)
IsMergeOf(out, src) ==
  IF src = <<>> THEN out = <<>>
  ELSE /\ out # <<>>
       /\ \/ out[1] = src[1] /\ IsMergeOf(Tail(out), Tail(src))
          \/ /\ Len(src) >= 2
             /\ out[1] = Compound(src[1], src[2])
             /\ IsMergeOf(Tail(out), Tail(Tail(src)))

\* the last step was a transform that returned
Transformed ==
  last.op = "getitem" /\ ~last.raised

\* The pair (a, b) of raw tokens is in the table with its compound and its
\* score is above the threshold.
Scores(a, b) ==
  LET ka == any2utf8(a)
      kb == any2utf8(b)
      kw == bigram_word(ka, kb)
  IN /\ {ka, kb, kw} \subseteq DOMAIN vocab
     /\ (vocab[kw] - min_count) * Cardinality(DOMAIN vocab) * threshold[2]
          > threshold[1] * vocab[ka] * vocab[kb]

\* C1: the single-sentence transform returns a sequence no longer than its
\* input that accounts for every input token exactly once and in order,
\* alone or as one half of a compound of two adjacent tokens; no token is
\* dropped (tokens absent from the table included), none is duplicated.
C1_EveryTokenAccountedFor ==
  Transformed => /\ Len(last.new_s) <= Len(last.doc)
                 /\ IsMergeOf(last.new_s, last.doc)

\* C2: no source position contributes to two compounds: a merge at (i, i+1)
\* is never followed by a merge at (i+1, i+2); for [x, y, z] with both x_y
\* and y_z above the threshold the output is [x_y, z].
C2_NoOverlappingMerges ==
  Transformed =>
    /\ \A i \in last.merges : (i + 1) \notin last.merges
    /\ \A d \in {last.doc} :
         (Len(d) = 3 /\ Scores(d[1], d[2]) /\ Scores(d[2], d[3]))
           => last.new_s = <<Compound(d[1], d[2]), d[3]>>

C2_Witness ==
  /\ Transformed
  /\ Len(last.doc) = 3
  /\ Scores(last.doc[1], last.doc[2]) /\ Scores(last.doc[2], last.doc[3])
  /\ last.merges = {1}

\* C3: min_reduce is 1 at construction and no step ever decreases it.
C3_MinReduceNeverDecreases ==
  /\ min_reduce = 1
  /\ [][min_reduce' >= min_reduce]_vars

C3_Witness ==
  /\ last.op = "add_vocab"
  /\ last.lv_min_reduce < last.prev_min_reduce
  /\ min_reduce > last.prev_min_reduce

\* The table a prune_vocab call was given, and the table it left, when the
\* last step made such a call.
Pruned ==
  last.op \in {"learn", "add_vocab"} /\ last.pruned

PruneIn ==
  IF last.op = "learn" THEN last.counted ELSE last.folded

PruneOut ==
  IF last.op = "learn" THEN lv_vocab ELSE vocab

C5_CheckpointBackNearCap ==
  last.op = "learn" =>
    Cardinality(DOMAIN lv_vocab)
      <= max_vocab_size + Cardinality((DOMAIN last.counted) \ (DOMAIN last.before))

\* C6: every count of the cumulative table is a lower bound on the number of
\* occurrences of its key in all sentences consumed so far.
C6_CountsAreLowerBounds ==
  \A k \in DOMAIN vocab : k \in DOMAIN seen /\ vocab[k] <= seen[k]

C6_Witness ==
  /\ last.op = "add_vocab"
  /\ \E k \in DOMAIN vocab : vocab[k] < seen[k]
  /\ \E k \in DOMAIN vocab : vocab[k] = seen[k]

\* C7: in learn_vocab a key never removed by a pruning pass has exactly its
\* number of occurrences as count, and no other key is created; [[a,b,c]]
\* gives {a:1, b:1, c:1, a_b:1, b_c:1}; an empty sentence adds nothing.
C7_UnprunedCountsAreExact ==
  /\ pc = "learn_vocab" =>
       /\ DOMAIN lv_vocab \subseteq DOMAIN lv_seen
       /\ \A k \in (DOMAIN lv_seen) \ lv_pruned :
            k \in DOMAIN lv_vocab /\ lv_vocab[k] = lv_seen[k]
  /\ (last.op = "learn" /\ last.sentence = <<>>) => last.counted = last.before
  /\ CountSentence(EmptyVocab, <<<<97>>, <<98>>, <<99>>>>)
       = [k \in {<<97>>, <<98>>, <<99>>, <<97, 95, 98>>, <<98, 95, 99>>} |-> 1]

C7_Witness ==
  /\ pc = "learn_vocab" /\ sentence_no = 2
  /\ lv_pruned # {}
  /\ \E k \in (DOMAIN lv_vocab) \ lv_pruned : lv_vocab[k] >= 3
  /\ \E k \in (DOMAIN lv_vocab) \cap lv_pruned : lv_vocab[k] < lv_seen[k]

\* The table with exactly the entries of v whose count is above T.
Above(v, T) ==
  [k \in {x \in DOMAIN v : v[x] > T} |-> v[k]]

\* C8: one add_vocab call sets min_reduce to max(previous, local); if and
\* only if the folded table has more than max_vocab_size keys it is pruned
\* once with that value and min_reduce is incremented by exactly 1.
C8_AddVocabMinReduce ==
  last.op = "add_vocab" =>
    LET m == IF last.prev_min_reduce >= last.lv_min_reduce
             THEN last.prev_min_reduce ELSE last.lv_min_reduce
    IN IF Cardinality(DOMAIN last.folded) > max_vocab_size
       THEN min_reduce = m + 1 /\ vocab = Above(last.folded, m)
       ELSE min_reduce = m /\ vocab = last.folded

C8_Witness ==
  /\ last.op = "add_vocab"
  /\ last.prev_min_reduce > last.lv_min_reduce
  /\ Cardinality(DOMAIN last.folded) > max_vocab_size
  /\ vocab # EmptyVocab /\ vocab # last.folded

C8_WitnessNoPrune ==
  /\ last.op = "add_vocab"
  /\ last.lv_min_reduce > last.prev_min_reduce
  /\ Cardinality(DOMAIN last.folded) = max_vocab_size
  /\ min_reduce = last.lv_min_reduce

\* C9: the pair at a position is emitted as a compound if and only if both
\* tokens and the compound are keys of the table, the previous position was
\* not merged, and (count(a_b) - min_count) / (count(a) * count(b)) * |table|
\* is strictly greater than the threshold; a score equal to the threshold
\* does not merge (a=100, b=100, a_b=90, |table|=1000, min_count=5,
\* threshold=10: 8.5, no merge).
C9_MergeIffScoreAboveThreshold ==
  /\ Transformed =>
       \A i \in 1..(Len(last.doc) - 1) :
         i \in last.merges <=>
           (Scores(last.doc[i], last.doc[i + 1]) /\ (i - 1) \notin last.merges)
  /\ ~ScoreAbove(90, 100, 100, 1000, 5, <<10, 1>>)


\* C10: a transform leaves the cumulative table and min_reduce unchanged,
\* also for tokens and pairs absent from the table, and a repeated call
\* with the same sentence returns the same output.
C10_TransformReadOnly ==
  [][last'.op = "getitem" =>
       /\ vocab' = vocab /\ min_reduce' = min_reduce
       /\ (last.op = "getitem" /\ last'.doc = last.doc) => last'.new_s = last.new_s]_vars

C10_Witness ==
  /\ Transformed
  /\ Len(last.doc) = 3
  /\ any2utf8(last.doc[1]) \in DOMAIN vocab
  /\ any2utf8(last.doc[2]) \in DOMAIN vocab
  /\ bigram_word(any2utf8(last.doc[1]), any2utf8(last.doc[2])) \notin DOMAIN vocab
  /\ any2utf8(last.doc[3]) \notin DOMAIN vocab

\* C11: transforming a sentence none of whose tokens is a key of the table
\* returns the sentence unchanged (same tokens, same order, same length),
\* for every length including 1.
C11_UnknownTokensUnchanged ==
  (Transformed /\ \A i \in 1..Len(last.doc) : any2utf8(last.doc[i]) \notin DOMAIN vocab)
    => last.new_s = last.doc

\* C12: in learn_vocab the local discard threshold starts at 1 and grows by
\* exactly 1 per pruning pass; a pass happens only at the checkpoint after a
\* whole sentence, when the table has more than max_vocab_size keys; the k-th
\* pass prunes with threshold k; the returned min_reduce is 1 plus the
\* number of passes.
C12_LocalThresholdCountsPasses ==
  /\ last.op = "begin" => lv_min_reduce = 1 /\ passes = 0
  /\ pc = "learn_vocab" => lv_min_reduce = 1 + passes
  /\ last.op = "learn" =>
       /\ last.pruned <=> Cardinality(DOMAIN last.counted) > max_vocab_size
       /\ IF last.pruned
          THEN /\ last.T = passes
               /\ lv_min_reduce = last.T + 1
               /\ lv_vocab = Above(last.counted, last.T)
          ELSE /\ lv_min_reduce = last.T
               /\ lv_vocab = last.counted
  /\ last.op = "add_vocab" => last.lv_min_reduce = 1 + last.passes

C12_Witness ==
  /\ last.op = "learn" /\ last.pruned
  /\ passes = 2 /\ last.T = 2
  /\ lv_vocab # last.counted

C12_WitnessReturned ==
  /\ last.op = "add_vocab"
  /\ last.passes = 2 /\ last.lv_min_reduce = 3

\* The count of k in table v, 0 for a key that is not there.
CountOr0(v, k) ==
  IF k \in DOMAIN v THEN v[k] ELSE 0

\* C13: add_vocab folds the local table into the cumulative one by key-wise
\* sum: before the optional pruning every key has its previous cumulative
\* count (0 if absent) plus its local count, new keys are created, and keys
\* absent from the local table keep their count.
C13_FoldIsKeywiseSum ==
  last.op = "add_vocab" =>
    /\ DOMAIN last.folded = (DOMAIN last.prev_vocab) \cup (DOMAIN last.lv_vocab)
    /\ \A k \in DOMAIN last.folded :
         last.folded[k] = CountOr0(last.prev_vocab, k) + CountOr0(last.lv_vocab, k)
    /\ \A k \in (DOMAIN last.prev_vocab) \ (DOMAIN last.lv_vocab) :
         last.folded[k] = last.prev_vocab[k]

C13_Witness ==
  /\ last.op = "add_vocab"
  /\ (DOMAIN last.prev_vocab) \cap (DOMAIN last.lv_vocab) # {}
  /\ (DOMAIN last.prev_vocab) \ (DOMAIN last.lv_vocab) # {}
  /\ (DOMAIN last.lv_vocab) \ (DOMAIN last.prev_vocab) # {}

\* C14: constructing with min_count <= 0 or threshold <= 0 fails at once
\* with a configuration error, before any sentence is consumed, and there is
\* no model to operate on; with min_count > 0 and threshold > 0 construction
\* succeeds with an empty table and min_reduce = 1.
C14_ConstructionValidates ==
  /\ last.op = "init" =>
       /\ status = "ValueError" <=> (last.min_count <= 0 \/ last.threshold[1] <= 0)
       /\ status = "ok" <=> (last.min_count > 0 /\ last.threshold[1] > 0)
       /\ status = "ok" =>
            /\ vocab = EmptyVocab /\ min_reduce = 1
            /\ min_count = last.min_count /\ threshold = last.threshold
            /\ max_vocab_size = last.max_vocab_size
       /\ consumed = 0
  /\ status = "ValueError" => last.op = "init" /\ calls = 0 /\ consumed = 0
  /\ status = "ok" => min_count > 0 /\ threshold[1] > 0

C14_Witness ==
  /\ last.op = "init" /\ status = "ValueError"
  /\ last.min_count > 0 /\ last.threshold[1] = 0

C14_WitnessMinCount ==
  /\ last.op = "init" /\ status = "ValueError"
  /\ last.min_count = 0 /\ last.threshold[1] > 0

C14_WitnessOk ==
  /\ last.op = "init" /\ status = "ok"
  /\ vocab = EmptyVocab /\ min_reduce = 1

\* C15: when the sentence iterator fails while add_vocab is consuming it, the
\* failure ends the call and the model's table and min_reduce are exactly
\* what they were before the call: counting goes to a separate local table,
\* so nothing of the sentences processed before the failure reaches the model.
C15_FailedAddVocabLeavesModel ==
  [][/\ last'.op \in {"begin", "learn", "failed"} =>
          vocab' = vocab /\ min_reduce' = min_reduce
     /\ last'.op = "failed" => pc = "learn_vocab" /\ pc' = "idle"]_vars

C15_Witness ==
  /\ last.op = "failed" /\ last.sentence_no >= 1
  /\ calls = 2 /\ min_reduce = 1
  /\ vocab # EmptyVocab
  /\ \E k \in DOMAIN seen : k \notin DOMAIN vocab

\* The number of elements the loop over the adjacent pairs of the last
\* transformed sentence emitted: one per pair, none for a pair whose first
\* token was merged away by the pair before it.
LoopEmitted ==
  (Len(last.doc) - 1) - Cardinality(last.merges \ {Len(last.doc) - 1})

\* C16: in the transform of a non-empty sentence the final token is appended
\* alone as the last output element if and only if it is a key of the table
\* and the last adjacent pair was not merged; a sentence of length 0 gives
\* an empty output; a sentence of length 0 or 1 never gives a compound.
C16_FinalTokenAppendedIffKnown ==
  Transformed =>
    LET n == Len(last.doc)
    IN /\ n >= 1 =>
            /\ Len(last.new_s) \in {LoopEmitted, LoopEmitted + 1}
            /\ Len(last.new_s) = LoopEmitted + 1
                 <=> (any2utf8(last.doc[n]) \in DOMAIN vocab /\ (n - 1) \notin last.merges)
            /\ Len(last.new_s) = LoopEmitted + 1
                 => last.new_s[Len(last.new_s)] = last.doc[n]
       /\ n = 0 => last.new_s = <<>>
       /\ n <= 1 => last.merges = {} /\ last.new_s \in {<<>>, last.doc}

C16_Witness ==
  /\ Transformed
  /\ Len(last.doc) = 3 /\ last.merges = {1}
  /\ last.new_s = <<Compound(last.doc[1], last.doc[2]), last.doc[3]>>

C16_WitnessMerged ==
  /\ Transformed
  /\ Len(last.doc) = 2 /\ last.merges = {1}
  /\ any2utf8(last.doc[2]) \in DOMAIN vocab
  /\ Len(last.new_s) = 1

C16_WitnessSingle ==
  /\ Transformed
  /\ Len(last.doc) = 1 /\ last.new_s = last.doc

\* The pair at position i of the last transformed sentence was scored: both
\* tokens and their compound are keys of the table and the pair before it
\* was not merged.
Scored(i) ==
  LET ka == any2utf8(last.doc[i])
      kb == any2utf8(last.doc[i + 1])
  IN /\ {ka, kb, bigram_word(ka, kb)} \subseteq DOMAIN vocab
     /\ (i - 1) \notin last.merges

\* C17: after any sequence of add_vocab calls on a validly constructed model
\* every key of the cumulative table has count >= 1, so the divisors count(a)
\* and count(b) of the score are never zero and the transform never raises,
\* whatever the sentence.
C17_CountsPositiveNoRaise ==
  /\ \A k \in DOMAIN vocab : vocab[k] >= 1
  /\ \A k \in DOMAIN lv_vocab : lv_vocab[k] >= 1
  /\ last.op = "getitem" => ~last.raised

C17_Witness ==
  /\ Transformed
  /\ \E i \in 1..(Len(last.doc) - 1) :
       Scored(i) /\ vocab[any2utf8(last.doc[i])] = 1

C17_WitnessAfterPrune ==
  /\ Transformed /\ min_reduce > 1
  /\ \E i \in 1..(Len(last.doc) - 1) : Scored(i)

\* The table key of the compound of the pair at position i of the last
\* transformed sentence.
PairKey(i) ==
  bigram_word(any2utf8(last.doc[i]), any2utf8(last.doc[i + 1]))

C18_WitnessNotMerged ==
  /\ Transformed
  /\ \E i \in 1..(Len(last.doc) - 1) :
       Scored(i) /\ vocab[PairKey(i)] = min_count /\ i \notin last.merges

\* The result of the add_vocab calls on the collections of cs, in order,
\* starting from a new model.
RECURSIVE AddAll(_, _)
AddAll(cs, n) ==
  IF n = 0 THEN NewModel ELSE add_vocab(AddAll(cs, n - 1), cs[n], max_vocab_size)

\* C19: when no pruning pass is triggered, neither in learn_vocab nor on the
\* cumulative table, add_vocab(S1) followed by add_vocab(S2) leaves the same
\* table and the same min_reduce (1) as one add_vocab on the concatenation of
\* S1 and S2, and as add_vocab(S2) followed by add_vocab(S1).
C19_AddVocabAdditiveWithoutPruning ==
  (last.op = "add_vocab_call" /\ Len(last.corpora) = 2) =>
    LET S1      == last.corpora[1]
        S2      == last.corpora[2]
        run     == AddAll(<<S1, S2>>, 2)
        swapped == AddAll(<<S2, S1>>, 2)
        joined  == AddAll(<<S1 \o S2>>, 1)
    IN /\ run.vocab = vocab /\ run.min_reduce = min_reduce
       /\ run.prunes = 0 =>
            /\ min_reduce = 1
            /\ joined.vocab = vocab /\ joined.min_reduce = 1
            /\ swapped.vocab = vocab /\ swapped.min_reduce = 1

C19_Witness ==
  /\ last.op = "add_vocab_call" /\ Len(last.corpora) = 2
  /\ AddAll(last.corpora, 2).prunes = 0
  /\ Len(last.corpora[1]) = 2 /\ Len(last.corpora[2]) = 1
  /\ last.corpora[1][1] # last.corpora[2][1]
  /\ Cardinality(DOMAIN vocab) = 3
  /\ \E k \in DOMAIN vocab : vocab[k] >= 3

====
